---- MODULE Spec2Model ----
(***************************************************************************)
(* A model of the ipapi client (src/src/lib.rs): six async functions that  *)
(* format a URL, await reqwest::get on it, and await the decoding of the   *)
(* response body (serde-derived IPInfo, Vec<IPInfo>, or plain text).       *)
(*                                                                         *)
(* Strings are sequences of one-character strings, so that format! and     *)
(* join are real concatenations.  A response body is a JSON value (or a    *)
(* text that is not JSON); decoding follows what #[derive(Deserialize)]    *)
(* generates for the four structs, as driven by serde_json.                *)
(* The HTTP transport is the environment: reqwest::get either fails or    *)
(* yields a response with a status, whose body then either fails to        *)
(* arrive or arrives in full.                                              *)
(***************************************************************************)
EXTENDS Integers, Sequences, FiniteSets, TLC

\* ------------------------------------------------------------- bounds
\* Number of calls that may be in flight together (specification Spec).
MaxCalls == 2
\* Longest ip string, and longest ips slice (specification SpecUrl).
MaxLen == 2
MaxIps == 2
\* Longest JSON array received for a bulk lookup (specification SpecBody).
MaxElems == 2

\* ------------------------------------------------------------ strings
BASE_URL ==
    << "h","t","t","p","s",":","/","/","a","p","i",".","i","p","q","u","e",
       "r","y",".","i","o","/" >>

\* Another endpoint a caller may pass to the *_with_endpoint functions.
OtherEndpoint == << "e", "/" >>

Comma == << "," >>

\* All strings over alphabet of length at most n.
StringsUpTo(alphabet, n) == UNION { [1..k -> alphabet] : k \in 0..n }

\* All sequences over S of length at most n.
SeqsUpTo(S, n) == UNION { [1..k -> S] : k \in 0..n }

IpA == << "1" >>
IpB == << "2" >>

\* --------------------------------------------------------------- JSON
\* A received body: a JSON value, or bytes that are not JSON at all.
Malformed == [t |-> "malformed"]
JNull     == [t |-> "null"]
JBool(b)  == [t |-> "bool", b |-> b]
\* An integer literal n.
JInt(n)   == [t |-> "int", n |-> n]
\* A literal with a fraction part: n.5
JFloat(n) == [t |-> "float", n |-> n]
JStr(s)   == [t |-> "str", s |-> s]
JArr(es)  == [t |-> "arr", es |-> es]
\* An object is the sequence of its members as written, so that a key may
\* occur more than once and in any order.
JObj(ms)  == [t |-> "obj", ms |-> ms]
Member(k, v) == [k |-> k, v |-> v]

\* ----------------------------------------------------- decoded values
None       == [t |-> "None"]
Some(v)    == [t |-> "Some", v |-> v]
VString(s) == [t |-> "String", s |-> s]
VBool(b)   == [t |-> "bool", b |-> b]
VU8(n)     == [t |-> "u8", n |-> n]
\* An f64 obtained from the literal n (half = FALSE) or n.5 (half = TRUE).
VF64(n, half) == [t |-> "f64", n |-> n, half |-> half]
VStruct(name, fs) == [t |-> name, fs |-> fs]
VVec(vs)   == [t |-> "Vec", vs |-> vs]
VText(b)   == [t |-> "text", body |-> b]
NoVal      == [t |-> "-"]

DeOk(v) == [ok |-> TRUE, val |-> v]
DeErr   == [ok |-> FALSE, val |-> NoVal]

\* ------------------------------------------------------ the data model
Field(name, base, opt) == [name |-> name, base |-> base, opt |-> opt]

ISPInfo ==
    << Field("asn", "String", TRUE), Field("org", "String", TRUE),
       Field("isp", "String", TRUE) >>

LocationInfo ==
    << Field("country", "String", TRUE), Field("country_code", "String", TRUE),
       Field("city", "String", TRUE), Field("state", "String", TRUE),
       Field("zipcode", "String", TRUE), Field("latitude", "f64", TRUE),
       Field("longitude", "f64", TRUE), Field("timezone", "String", TRUE),
       Field("localtime", "String", TRUE) >>

RiskInfo ==
    << Field("is_mobile", "bool", TRUE), Field("is_vpn", "bool", TRUE),
       Field("is_tor", "bool", TRUE), Field("is_proxy", "bool", TRUE),
       Field("is_datacenter", "bool", TRUE), Field("risk_score", "u8", TRUE) >>

IPInfo ==
    << Field("ip", "String", FALSE), Field("isp", "ISPInfo", TRUE),
       Field("location", "LocationInfo", TRUE), Field("risk", "RiskInfo", TRUE) >>

StructNames == {"ISPInfo", "LocationInfo", "RiskInfo", "IPInfo"}

FieldsOf(name) ==
    CASE name = "ISPInfo" -> ISPInfo
      [] name = "LocationInfo" -> LocationInfo
      [] name = "RiskInfo" -> RiskInfo
      [] name = "IPInfo" -> IPInfo

\* u8 holds 0..=255.
U8Max == 255

\* ------------------------------------------------------------ decoding
\* The members of an object whose key is k, in order.
Occurrences(ms, k) == { i \in 1..Len(ms) : ms[i].k = k }

\* What a field absent from the object decodes to: None for an Option,
\* the "missing field" error otherwise.
missing_field_strict(f) == DeErr
missing_field(f) == IF f.opt THEN DeOk(None) ELSE DeErr

RECURSIVE deserialize(_, _)
RECURSIVE deserialize_field(_, _)

\* Option<T>: null is None, anything else is Some(T); a plain T otherwise.
deserialize_field(f, j) ==
    IF f.opt
    THEN IF j.t = "null"
         THEN DeOk(None)
         ELSE LET r == deserialize(f.base, j)
              IN  IF r.ok THEN DeOk(Some(r.val)) ELSE DeErr
    ELSE deserialize(f.base, j)

\* visit_map of a derived struct: a repeated known key is an error, an
\* unknown key is skipped, an absent key goes to missing_field.
visit_map(name, ms) ==
    LET fs == FieldsOf(name)
        one(i) ==
            LET occ == Occurrences(ms, fs[i].name)
            IN  IF occ = {} THEN missing_field(fs[i])
                ELSE IF Cardinality(occ) > 1 THEN DeErr
                ELSE deserialize_field(fs[i], ms[CHOOSE n \in occ : TRUE].v)
        rs == [i \in 1..Len(fs) |-> one(i)]
    IN  IF \A i \in 1..Len(fs) : rs[i].ok
        THEN DeOk(VStruct(name, [i \in 1..Len(fs) |-> rs[i].val]))
        ELSE DeErr

\* visit_seq of a derived struct: one element per field, in declaration
\* order; too few is invalid_length, too many is trailing characters.
visit_seq(name, es) ==
    LET fs == FieldsOf(name)
        rs == [i \in 1..Len(fs) |-> deserialize_field(fs[i], es[i])]
    IN  IF Len(es) # Len(fs) THEN DeErr
        ELSE IF \A i \in 1..Len(fs) : rs[i].ok
        THEN DeOk(VStruct(name, [i \in 1..Len(fs) |-> rs[i].val]))
        ELSE DeErr

deserialize(base, j) ==
    CASE base = "String" ->
            IF j.t = "str" THEN DeOk(VString(j.s)) ELSE DeErr
      [] base = "bool" ->
            IF j.t = "bool" THEN DeOk(VBool(j.b)) ELSE DeErr
      [] base = "u8" ->
            IF j.t = "int" /\ j.n >= 0 /\ j.n <= U8Max
            THEN DeOk(VU8(j.n)) ELSE DeErr
      [] base = "f64" ->
            IF j.t \in {"int", "float"}
            THEN DeOk(VF64(j.n, j.t = "float")) ELSE DeErr
      [] base \in StructNames ->
            IF j.t = "obj" THEN visit_map(base, j.ms)
            ELSE IF j.t = "arr" THEN visit_seq(base, j.es)
            ELSE DeErr

\* Vec<IPInfo>: a JSON array whose every element decodes, in order.
deserialize_vec_lenient(j) ==
    IF j.t # "arr" THEN DeErr
    ELSE LET rs == [i \in 1..Len(j.es) |-> deserialize("IPInfo", j.es[i])]
             keep == SelectSeq(rs, LAMBDA r : r.ok)
         IN  DeOk(VVec([i \in 1..Len(keep) |-> keep[i].val]))
deserialize_vec_reversed(j) ==
    IF j.t # "arr" THEN DeErr
    ELSE LET n == Len(j.es)
             rs == [i \in 1..n |-> deserialize("IPInfo", j.es[n + 1 - i])]
         IN  IF \A i \in 1..n : rs[i].ok
             THEN DeOk(VVec([i \in 1..n |-> rs[i].val]))
             ELSE DeErr
deserialize_vec(j) ==
    IF j.t # "arr" THEN DeErr
    ELSE LET rs == [i \in 1..Len(j.es) |-> deserialize("IPInfo", j.es[i])]
         IN  IF \A i \in 1..Len(rs) : rs[i].ok
             THEN DeOk(VVec([i \in 1..Len(rs) |-> rs[i].val]))
             ELSE DeErr

\* ------------------------------------------------------------- results
Ok(v)  == [ok |-> TRUE, val |-> v, err |-> "-"]
Err(k) == [ok |-> FALSE, val |-> NoVal, err |-> k]
NoResult == [ok |-> FALSE, val |-> NoVal, err |-> "pending"]

\* ------------------------------------------------------- the functions
\* Each function is the URL it formats and the shape it decodes the body as.
RECURSIVE join(_, _)
join_trailing(ips, sep) ==
    IF ips = << >> THEN << >> ELSE ips[1] \o sep \o join(Tail(ips), sep)
join(ips, sep) ==
    IF ips = << >> THEN << >>
    ELSE IF Len(ips) = 1 THEN ips[1]
    ELSE ips[1] \o sep \o join(Tail(ips), sep)

Request(url, shape) == [url |-> url, shape |-> shape]

query_ip_sanitized(ip) ==
    Request(BASE_URL \o SelectSeq(ip, LAMBDA ch : ch # ","), "IPInfo")
query_ip(ip) == Request(BASE_URL \o ip, "IPInfo")

query_bulk(ips) == Request(BASE_URL \o join(ips, Comma), "Vec<IPInfo>")

query_own_ip == Request(BASE_URL, "text")

query_ip_with_endpoint(ip, endpoint) == Request(endpoint \o ip, "IPInfo")

query_bulk_with_endpoint(ips, endpoint) ==
    Request(endpoint \o join(ips, Comma), "Vec<IPInfo>")

query_own_ip_with_endpoint_json(endpoint) == Request(endpoint, "IPInfo")
query_own_ip_with_endpoint(endpoint) == Request(endpoint, "text")

Ops == { "query_ip", "query_bulk", "query_own_ip", "query_ip_with_endpoint",
         "query_bulk_with_endpoint", "query_own_ip_with_endpoint" }

\* A call of one of the functions; an argument the function does not take
\* is the empty string.
Invoke(op, ip, ips, endpoint) ==
    [op |-> op, ip |-> ip, ips |-> ips, endpoint |-> endpoint]
NoInvocation == Invoke("-", << >>, << >>, << >>)

Invocations(ipDom, ipsDom, epDom) ==
    { Invoke("query_ip", ip, << >>, << >>) : ip \in ipDom }
    \cup { Invoke("query_bulk", << >>, ips, << >>) : ips \in ipsDom }
    \cup { Invoke("query_own_ip", << >>, << >>, << >>) }
    \cup { Invoke("query_ip_with_endpoint", x[1], << >>, x[2]) :
             x \in ipDom \X epDom }
    \cup { Invoke("query_bulk_with_endpoint", << >>, x[1], x[2]) :
             x \in ipsDom \X epDom }
    \cup { Invoke("query_own_ip_with_endpoint", << >>, << >>, ep) : ep \in epDom }

RequestOf(i) ==
    CASE i.op = "query_ip" -> query_ip(i.ip)
      [] i.op = "query_bulk" -> query_bulk(i.ips)
      [] i.op = "query_own_ip" -> query_own_ip
      [] i.op = "query_ip_with_endpoint" ->
            query_ip_with_endpoint(i.ip, i.endpoint)
      [] i.op = "query_bulk_with_endpoint" ->
            query_bulk_with_endpoint(i.ips, i.endpoint)
      [] i.op = "query_own_ip_with_endpoint" ->
            query_own_ip_with_endpoint(i.endpoint)

\* Response::json::<T>() and Response::text() on a body received in full.
\* Neither looks at the status of the response.
json(shape, body) ==
    LET r == IF shape = "IPInfo" THEN deserialize("IPInfo", body)
             ELSE deserialize_vec(body)
    IN  IF body.t # "malformed" /\ r.ok THEN Ok(r.val) ELSE Err("DecodeError")

text(body) == Ok(VText(body))

read_body_checked(shape, status, body) ==
    IF status >= 400 THEN Err("NetworkError")
    ELSE IF shape = "text" THEN text(body) ELSE json(shape, body)
read_body(shape, status, body) ==
    IF shape = "text" THEN text(body) ELSE json(shape, body)

\* ---------------------------------------------------------- the network
\* What the transport delivered to a call so far.
NoNet == [kind |-> "-", status |-> 0, body |-> NoVal]
GetFailed == [kind |-> "get_failed", status |-> 0, body |-> NoVal]
Headers(status) == [kind |-> "headers", status |-> status, body |-> NoVal]
BodyFailed(status) == [kind |-> "body_failed", status |-> status, body |-> NoVal]
Complete(status, body) == [kind |-> "complete", status |-> status, body |-> body]

\* --------------------------------------------------------------- state
VARIABLES
    pc,      \* pc[c]: "idle", "get" (awaiting reqwest::get), "body" (awaiting
             \* json()/text()), "done", "cancelled" (the future was dropped)
    inv,     \* inv[c]: the function called and its arguments
    url,     \* url[c]: the URL handed to reqwest::get
    sent,    \* sent[c]: how many times the call has invoked reqwest::get
    net,     \* net[c]: what the transport delivered to the call
    result   \* result[c]: the Result the call returned

vars == << pc, inv, url, sent, net, result >>

Calls == 1..MaxCalls

Init ==
    /\ pc = [c \in Calls |-> "idle"]
    /\ inv = [c \in Calls |-> NoInvocation]
    /\ url = [c \in Calls |-> << >>]
    /\ sent = [c \in Calls |-> 0]
    /\ net = [c \in Calls |-> NoNet]
    /\ result = [c \in Calls |-> NoResult]

\* The caller calls a function with some arguments: the URL is formatted
\* and reqwest::get is invoked on it.
Start(c, invs) ==
    /\ pc[c] = "idle"
    /\ \E i \in invs :
        /\ inv' = [inv EXCEPT ![c] = i]
        /\ url' = [url EXCEPT ![c] = RequestOf(i).url]
    /\ sent' = [sent EXCEPT ![c] = @ + 1]
    /\ pc' = [pc EXCEPT ![c] = "get"]
    /\ UNCHANGED << net, result >>

\* reqwest::get(..).await? is an Err: the function returns it.
GetFailsRetry(c) ==
    /\ pc[c] = "get"
    /\ IF sent[c] < 2
       THEN /\ sent' = [sent EXCEPT ![c] = @ + 1]
            /\ UNCHANGED << pc, inv, url, net, result >>
       ELSE /\ net' = [net EXCEPT ![c] = GetFailed]
            /\ result' = [result EXCEPT ![c] = Err("NetworkError")]
            /\ pc' = [pc EXCEPT ![c] = "done"]
            /\ UNCHANGED << inv, url, sent >>
GetFailsDecodesEmpty(c) ==
    /\ pc[c] = "get"
    /\ net' = [net EXCEPT ![c] = GetFailed]
    /\ result' = [result EXCEPT ![c] =
                    read_body(RequestOf(inv[c]).shape, 0, Malformed)]
    /\ pc' = [pc EXCEPT ![c] = "done"]
    /\ UNCHANGED << inv, url, sent >>
GetFails(c) ==
    /\ pc[c] = "get"
    /\ net' = [net EXCEPT ![c] = GetFailed]
    /\ result' = [result EXCEPT ![c] = Err("NetworkError")]
    /\ pc' = [pc EXCEPT ![c] = "done"]
    /\ UNCHANGED << inv, url, sent >>

\* reqwest::get(..).await? is a response, whatever its status: the function
\* goes on to await its body.
GetResponds(c, statuses) ==
    /\ pc[c] = "get"
    /\ \E status \in statuses : net' = [net EXCEPT ![c] = Headers(status)]
    /\ pc' = [pc EXCEPT ![c] = "body"]
    /\ UNCHANGED << inv, url, sent, result >>

\* The connection fails while the body is read: json()/text() is an Err.
BodyFails(c) ==
    /\ pc[c] = "body"
    /\ net' = [net EXCEPT ![c] = BodyFailed(net[c].status)]
    /\ result' = [result EXCEPT ![c] = Err("NetworkError")]
    /\ pc' = [pc EXCEPT ![c] = "done"]
    /\ UNCHANGED << inv, url, sent >>

\* The body arrives in full and is decoded; the function returns.
BodyArrivesShared(c, bodies) ==
    /\ pc[c] = "body"
    /\ \E body \in bodies :
        /\ net' = [net EXCEPT ![c] = Complete(net[c].status, body)]
        /\ LET others == { d \in Calls : d # c /\ net[d].kind = "complete" }
               b == IF others = {} THEN body
                    ELSE net[CHOOSE d \in others : TRUE].body
           IN  result' = [result EXCEPT ![c] =
                            read_body(RequestOf(inv[c]).shape, net[c].status, b)]
    /\ pc' = [pc EXCEPT ![c] = "done"]
    /\ UNCHANGED << inv, url, sent >>
BodyArrives(c, bodies) ==
    /\ pc[c] = "body"
    /\ \E body \in bodies :
        /\ net' = [net EXCEPT ![c] = Complete(net[c].status, body)]
        /\ result' = [result EXCEPT ![c] =
                        read_body(RequestOf(inv[c]).shape, net[c].status, body)]
    /\ pc' = [pc EXCEPT ![c] = "done"]
    /\ UNCHANGED << inv, url, sent >>

\* The caller drops the future while it is suspended: nothing more happens
\* for this call and what it had received is gone.
Cancel(c) ==
    /\ pc[c] \in {"get", "body"}
    /\ pc' = [pc EXCEPT ![c] = "cancelled"]
    /\ net' = [net EXCEPT ![c] = NoNet]
    /\ UNCHANGED << inv, url, sent, result >>

NextOver(calls, invs, statuses, bodies) ==
    \E c \in calls :
        \/ Start(c, invs)
        \/ GetFails(c)
        \/ GetResponds(c, statuses)
        \/ BodyFails(c)
        \/ BodyArrives(c, bodies)
        \/ Cancel(c)

\* ------------------------------------------ Spec: calls run concurrently
GoodA == JObj(<< Member("ip", JStr(IpA)) >>)
GoodB == JObj(<< Member("ip", JStr(IpB)) >>)

SmallInvocations ==
    Invocations({IpA, IpB}, {<< IpA, IpB >>}, {OtherEndpoint})
SmallBodies == { Malformed, GoodA, JArr(<< GoodA, GoodB >>) }

Next == NextOver(Calls, SmallInvocations, {200}, SmallBodies)
Spec == Init /\ [][Next]_vars

\* --------------------------- SpecUrl: one call, over many argument values
UrlAlphabet == { "1", "," }
UrlIps == StringsUpTo(UrlAlphabet, MaxLen)
UrlInvocations ==
    Invocations(UrlIps, SeqsUpTo(UrlIps, MaxIps), {BASE_URL, OtherEndpoint, << >>})
UrlBodies == { Malformed, GoodA }

NextUrl == NextOver({1}, UrlInvocations, {200}, UrlBodies)
SpecUrl == Init /\ [][NextUrl]_vars

\* ------------------------------- SpecBody: one call, over many responses
Text7 == << "7" >>

IpMembers ==
    { << >>,
      << Member("ip", JStr(IpA)) >>,
      << Member("ip", JStr(IpB)) >>,
      << Member("ip", JInt(7)) >>,
      << Member("ip", JNull) >>,
      << Member("ip", JStr(IpA)), Member("ip", JStr(IpA)) >> }

IspValues ==
    { JNull,
      JObj(<< >>),
      JObj(<< Member("asn", JStr(Text7)) >>),
      JObj(<< Member("asn", JInt(7)) >>),
      JObj(<< Member("org", JNull), Member("isp", JStr(Text7)) >>),
      JObj(<< Member("isp", JStr(Text7)), Member("isp", JStr(Text7)) >>),
      JObj(<< Member("extra", JInt(7)) >>),
      JArr(<< JStr(Text7), JNull, JStr(Text7) >>),
      JArr(<< JStr(Text7) >>),
      JStr(Text7) }

LocationValues ==
    { JNull,
      JObj(<< Member("latitude", JInt(7)) >>),
      JObj(<< Member("longitude", JFloat(7)), Member("city", JStr(Text7)) >>),
      JObj(<< Member("latitude", JStr(Text7)) >>),
      JObj(<< Member("zipcode", JInt(7)) >>),
      JBool(TRUE) }

RiskValues ==
    { JNull,
      JObj(<< Member("risk_score", JInt(7)) >>),
      JObj(<< Member("risk_score", JInt(200)) >>),
      JObj(<< Member("risk_score", JInt(300)) >>),
      JObj(<< Member("risk_score", JInt(-1)) >>),
      JObj(<< Member("risk_score", JFloat(7)) >>),
      JObj(<< Member("is_vpn", JBool(TRUE)), Member("is_tor", JNull) >>),
      JObj(<< Member("is_tor", JInt(1)) >>),
      JInt(7) }

OptMembers(key, values) == { << >> } \cup { << Member(key, v) >> : v \in values }

\* Objects a service may answer a single lookup with: every ip member with
\* every value of one optional member, and with all three members at once.
FullMembers ==
    { << Member("isp", JObj(<< Member("asn", JStr(Text7)) >>)),
         Member("location", JObj(<< Member("latitude", JInt(7)) >>)),
         Member("risk", JObj(<< Member("risk_score", JInt(7)) >>)) >>,
      << Member("risk", JNull), Member("location", JNull),
         Member("isp", JNull), Member("extra", JNull) >>,
      << Member("isp", JObj(<< >>)), Member("location", JBool(TRUE)),
         Member("risk", JObj(<< >>)) >> }

ObjectBodies ==
    { JObj(x[1] \o x[2]) :
        x \in IpMembers \X ( OptMembers("isp", IspValues)
                             \cup OptMembers("location", LocationValues)
                             \cup OptMembers("risk", RiskValues)
                             \cup FullMembers ) }
    \cup { JObj(x[2] \o x[1]) : x \in IpMembers \X FullMembers }

\* Elements of the array a service may answer a bulk lookup with.
Elements ==
    { GoodA, GoodB,
      JObj(<< Member("isp", JObj(<< >>)) >>),
      JObj(<< Member("ip", JStr(IpA)), Member("risk", JNull) >>),
      JArr(<< JStr(IpB), JNull, JNull, JNull >>),
      JStr(IpA) }

ArrayBodies == { JArr(es) : es \in SeqsUpTo(Elements, MaxElems) }

OtherBodies ==
    { Malformed, JNull, JStr(IpA), JInt(7),
      JArr(<< JStr(IpA), JNull, JNull, JNull >>),
      JArr(<< JStr(IpA), JObj(<< >>), JNull, JObj(<< Member("is_vpn", JBool(FALSE)) >>) >>),
      JArr(<< JStr(IpA), JNull, JNull >>),
      JArr(<< JStr(IpA), JNull, JNull, JNull, JNull >>),
      JArr(<< JNull, JNull, JNull, JNull >>) }

RichBodies == ObjectBodies \cup ArrayBodies \cup OtherBodies

Statuses == { 200, 404, 500 }

BodyInvocations == Invocations({IpA}, {<< >>, << IpA, IpB >>}, {OtherEndpoint})

NextBody == NextOver({1}, BodyInvocations, Statuses, RichBodies)
SpecBody == Init /\ [][NextBody]_vars

\* ============================================================== claims
IpOps   == { "query_ip", "query_ip_with_endpoint" }
BulkOps == { "query_bulk", "query_bulk_with_endpoint" }
OwnOps  == { "query_own_ip", "query_own_ip_with_endpoint" }

\* The endpoint a call addresses: the fixed base URL unless one is passed.
EndpointOf(i) ==
    IF i.op \in { "query_ip", "query_bulk", "query_own_ip" }
    THEN BASE_URL ELSE i.endpoint

Started(c) == pc[c] # "idle"
Received(c) == pc[c] = "done" /\ net[c].kind = "complete"

\* C1: every call issues exactly one GET whatever its outcome: none before it
\* is made, one from then on, also after a transport or a decode failure; and
\* such a failure is what the call returns.
C1_OneRequestNoRetry ==
    \A c \in Calls :
        /\ sent[c] = (IF Started(c) THEN 1 ELSE 0)
        /\ (pc[c] = "done" /\ net[c].kind \in {"get_failed", "body_failed"})
              => (~result[c].ok /\ result[c].val = NoVal
                   /\ result[c].err = "NetworkError")
        /\ (Received(c) /\ net[c].body = Malformed
                /\ inv[c].op \notin OwnOps)
              => (~result[c].ok /\ result[c].val = NoVal
                   /\ result[c].err = "DecodeError")

C1_Witness ==
    \E c, d \in Calls :
        /\ pc[c] = "done" /\ net[c].kind = "get_failed" /\ sent[c] = 1
        /\ Received(d) /\ net[d].body = Malformed /\ ~result[d].ok /\ sent[d] = 1

\* C2: a call whose request could not be sent or whose connection failed
\* fails with NetworkError; a DecodeError is returned only by a call that
\* received a response in full.
C2_NetworkBeforeDecode ==
    \A c \in Calls :
        /\ (pc[c] = "done" /\ net[c].kind \in {"get_failed", "body_failed"})
              => result[c].err = "NetworkError"
        /\ result[c].err = "DecodeError" => Received(c)

C2_Witness ==
    \E c, d \in Calls :
        /\ pc[c] = "done" /\ net[c].kind = "get_failed"
        /\ result[c].err = "NetworkError"
        /\ Received(d) /\ result[d].err = "DecodeError"

\* C3: a single lookup requests the endpoint followed by the ip string as
\* given, whatever the string, and query_ip(ip) requests and returns what
\* query_ip_with_endpoint(ip, BASE_URL) does.
C3_UrlIsEndpointThenIp ==
    \A c \in Calls :
        (Started(c) /\ inv[c].op \in IpOps) =>
            LET ep == EndpointOf(inv[c])
                same == query_ip_with_endpoint(inv[c].ip, BASE_URL)
            IN  /\ sent[c] = 1
                /\ Len(url[c]) = Len(ep) + Len(inv[c].ip)
                /\ SubSeq(url[c], 1, Len(ep)) = ep
                /\ SubSeq(url[c], Len(ep) + 1, Len(url[c])) = inv[c].ip
                /\ inv[c].op = "query_ip" =>
                      /\ url[c] = same.url
                      /\ RequestOf(inv[c]).shape = same.shape
                      /\ Received(c) => result[c] =
                            read_body(same.shape, net[c].status, net[c].body)

C3_Witness ==
    \E c \in Calls :
        /\ inv[c].op = "query_ip" /\ inv[c].ip = << "1", "," >>
        /\ url[c] = BASE_URL \o << "1", "," >>
        /\ Received(c) /\ result[c].ok

\* C4: a bulk lookup requests the endpoint followed by the elements of ips in
\* input order, one comma between neighbours and none before the first or
\* after the last; for no ips at all the URL is the endpoint alone and the
\* request is sent all the same.
RECURSIVE OffsetOf(_, _)
\* Where element i of ips starts in the joined list, counted from 0.
OffsetOf(ips, i) ==
    IF i = 1 THEN 0 ELSE OffsetOf(ips, i - 1) + Len(ips[i - 1]) + 1

C4_BulkUrlIsCommaJoined ==
    \A c \in Calls :
        (Started(c) /\ inv[c].op \in BulkOps) =>
            LET ep == EndpointOf(inv[c])
                ips == inv[c].ips
                n == Len(ips)
                list == SubSeq(url[c], Len(ep) + 1, Len(url[c]))
            IN  /\ sent[c] = 1
                /\ SubSeq(url[c], 1, Len(ep)) = ep
                /\ n = 0 => url[c] = ep
                /\ n > 0 => Len(list) = OffsetOf(ips, n) + Len(ips[n])
                /\ \A i \in 1..n :
                      SubSeq(list, OffsetOf(ips, i) + 1,
                             OffsetOf(ips, i) + Len(ips[i])) = ips[i]
                /\ \A i \in 2..n : list[OffsetOf(ips, i)] = ","

C4_Witness ==
    \E c \in Calls :
        /\ inv[c].op = "query_bulk" /\ inv[c].ips = << >>
        /\ pc[c] = "done" /\ sent[c] = 1 /\ url[c] = BASE_URL

\* The ip a decoded IPInfo record holds (its first field).
IpOfRecord(v) == v.fs[1].s

\* The ip a JSON value carries where IPInfo looks for it: the ip member of
\* an object, the first element of a positional array.
IpOfJson(j) ==
    IF j.t = "obj"
    THEN j.ms[CHOOSE n \in Occurrences(j.ms, "ip") : TRUE].v.s
    ELSE j.es[1].s

\* C5 as stated: a successful lookup returns the requested addresses: the
\* record of query_ip holds the ip passed in, and query_bulk returns one
\* record per requested ip, the i-th holding ips[i].
C5_EchoesInput ==
    \A c \in Calls :
        (pc[c] = "done" /\ result[c].ok) =>
            /\ inv[c].op \in IpOps => IpOfRecord(result[c].val) = inv[c].ip
            /\ inv[c].op \in BulkOps =>
                  /\ Len(result[c].val.vs) = Len(inv[c].ips)
                  /\ \A i \in 1..Len(inv[c].ips) :
                        IpOfRecord(result[c].val.vs[i]) = inv[c].ips[i]

\* C5 as amended: a successful lookup returns the addresses the response
\* carries: the record of query_ip holds the ip of the response body, and
\* query_bulk returns one record per element of the response array, in
\* response order, the i-th holding that element's ip; so the result echoes
\* the input whenever the response does.
C5_EchoesResponse ==
    \A c \in Calls :
        (pc[c] = "done" /\ result[c].ok) =>
            /\ inv[c].op \in IpOps =>
                  IpOfRecord(result[c].val) = IpOfJson(net[c].body)
            /\ inv[c].op \in BulkOps =>
                  /\ Len(result[c].val.vs) = Len(net[c].body.es)
                  /\ \A i \in 1..Len(net[c].body.es) :
                        IpOfRecord(result[c].val.vs[i])
                            = IpOfJson(net[c].body.es[i])

C5_Witness ==
    \E c \in Calls :
        /\ inv[c].op = "query_bulk" /\ inv[c].ips = << IpA, IpB >>
        /\ Received(c) /\ net[c].body = JArr(<< GoodA, GoodB >>)
        /\ result[c].ok
        /\ IpOfRecord(result[c].val.vs[1]) = IpA
        /\ IpOfRecord(result[c].val.vs[2]) = IpB

\* What the data model says of a JSON value standing for a field of the
\* given type.  Read loosely, a record is a JSON object whose fields are
\* absent (when optional), null (when optional) or of their type, however
\* often a key is written.  Read exactly, no key of the record is written
\* twice, and a record may also be the array of all its fields in order.
RECURSIVE WellTyped(_, _, _)
WellTyped(base, j, exactly) ==
    LET fieldOK(f, v) ==
            \/ f.opt /\ v.t = "null"
            \/ WellTyped(f.base, v, exactly)
    IN  CASE base = "String" -> j.t = "str"
          [] base = "bool" -> j.t = "bool"
          [] base = "f64" -> j.t \in {"int", "float"}
          [] base = "u8" -> j.t = "int" /\ j.n \in 0..U8Max
          [] OTHER ->
               LET fs == FieldsOf(base) IN
               \/ /\ j.t = "obj"
                  /\ \A i \in 1..Len(fs) :
                       LET occ == Occurrences(j.ms, fs[i].name) IN
                       /\ occ = {} => fs[i].opt
                       /\ exactly => Cardinality(occ) <= 1
                       /\ \A n \in occ : fieldOK(fs[i], j.ms[n].v)
               \/ /\ exactly
                  /\ j.t = "arr"
                  /\ Len(j.es) = Len(fs)
                  /\ \A i \in 1..Len(fs) : fieldOK(fs[i], j.es[i])

\* Every optional field the object does not write, or writes as null, is
\* absent from the record decoded from it.
AbsentWhereMissing(j, v) ==
    \A i \in 2..Len(IPInfo) :
        LET occ == Occurrences(j.ms, IPInfo[i].name) IN
        (occ = {} \/ \A n \in occ : j.ms[n].v.t = "null") => v.fs[i] = None

DecodedAsIPInfo(c) == Received(c) /\ inv[c].op \in IpOps

C7_BulkAllOrNothing ==
    \A c \in Calls :
        (Received(c) /\ inv[c].op \in BulkOps) =>
            LET b == net[c].body
                bad == b.t # "arr"
                       \/ \E i \in 1..Len(b.es) : ~deserialize("IPInfo", b.es[i]).ok
            IN  /\ bad => (~result[c].ok /\ result[c].val = NoVal)
                /\ ~bad =>
                      /\ result[c].ok
                      /\ Len(result[c].val.vs) = Len(b.es)
                      /\ \A i \in 1..Len(b.es) :
                            result[c].val.vs[i] = deserialize("IPInfo", b.es[i]).val

C7_Witness ==
    \E c \in Calls :
        /\ Received(c) /\ inv[c].op = "query_bulk"
        /\ net[c].body = JArr(<< GoodA, JStr(IpA) >>)
        /\ ~result[c].ok /\ result[c].val = NoVal

\* C8: a self lookup requests the endpoint with nothing appended, returns the
\* body of a received response as it is, JSON or not, and fails only with
\* NetworkError.
C8_OwnIpIsRawText ==
    \A c \in Calls :
        (Started(c) /\ inv[c].op \in OwnOps) =>
            /\ url[c] = EndpointOf(inv[c])
            /\ Received(c) => result[c] = Ok(VText(net[c].body))
            /\ result[c].err # "DecodeError"
            /\ (pc[c] = "done" /\ ~result[c].ok) => result[c].err = "NetworkError"

C8_Witness ==
    \E c \in Calls :
        /\ inv[c].op = "query_own_ip_with_endpoint"
        /\ Received(c) /\ net[c].body = Malformed
        /\ result[c] = Ok(VText(Malformed))

\* What a call returns, going by its own arguments and its own response.
Alone(i, n) ==
    IF n.kind \in {"get_failed", "body_failed"} THEN Err("NetworkError")
    ELSE read_body(RequestOf(i).shape, n.status, n.body)

Local(c) == << pc[c], inv[c], url[c], sent[c], net[c], result[c] >>

\* C9: calls in flight together are independent: whatever the interleaving,
\* a finished call returned what its own arguments and its own response
\* determine, an unfinished or cancelled one returned nothing, and a step of
\* one call (a failure and a cancellation included) leaves every other call
\* as it was.
C9_CallsAreIndependent ==
    /\ [](\A c \in Calls :
            /\ Started(c) => url[c] = RequestOf(inv[c]).url
            /\ pc[c] = "done" => result[c] = Alone(inv[c], net[c])
            /\ pc[c] # "done" => result[c] = NoResult)
    /\ [][\E c \in Calls : \A d \in Calls \ {c} : Local(d)' = Local(d)]_vars

C9_Witness ==
    \E c, d \in Calls :
        /\ c # d /\ inv[c] = inv[d]
        /\ pc[c] = "cancelled"
        /\ Received(d) /\ result[d].ok

\* C10: the status of a response is never looked at: a call that received a
\* response returns what the body alone determines, so that a self lookup
\* returns the body of an error response and a single lookup returns Ok when
\* that body has the IPInfo shape and DecodeError otherwise.
C10_StatusIgnored ==
    \A c \in Calls :
        Received(c) =>
            /\ inv[c].op \in OwnOps => result[c] = text(net[c].body)
            /\ inv[c].op \in IpOps => result[c] = json("IPInfo", net[c].body)
            /\ inv[c].op \in BulkOps =>
                  result[c] = json("Vec<IPInfo>", net[c].body)
            /\ result[c].err # "NetworkError"

C10_Witness ==
    \E c \in Calls :
        /\ inv[c].op = "query_ip" /\ Received(c)
        /\ net[c].status = 404 /\ net[c].body = GoodA
        /\ result[c].ok

====
